---------------------------- MODULE Spec2Model ----------------------------
(***************************************************************************)
(* State-machine model of shaack/starfield-js: the Starfield render loop   *)
(* with its swarm of SpaceShip agents (steering, trail, following).        *)
(*                                                                         *)
(* Numbers.  JavaScript computes in doubles; the model computes in fixed   *)
(* point:                                                                  *)
(*   - angles are whole degrees (PI = 180);                                *)
(*   - Cos/Sin return the cosine/sine times CosScale (100), so a position  *)
(*     is counted in 1/100 pixel ("sub-pixels") while props.speed stays in *)
(*     pixels per tick: x + Cos(direction) * speed needs no division;      *)
(*   - canvas sizes and the distance props (edgeDistance, followDistance,  *)
(*     tailMaxDistance) are in sub-pixels;                                 *)
(*   - fractions (curveChangeRate, tailOpacity, followStrength) are in     *)
(*     percent;                                                            *)
(*   - Math.random() returns k / RandomScale for k in 0 .. RandomScale-1;  *)
(*   - time is in milliseconds; the resize timer counts in steps of         *)
(*     TimeUnit milliseconds.                                               *)
(***************************************************************************)
EXTENDS Integers, Sequences, FiniteSets, TLC

(* ------------------------------ bounds --------------------------------- *)

\* Largest swarm (props.spaceShipCount) explored.
MaxShips == 2

\* Frames (calls of Starfield.draw) explored after construction.
MaxFrames == 3

\* Largest number of stars (props.starCount) explored.
MaxStars == 2

\* Largest number of "resize" events explored between two runs of init().
MaxBurst == 2

(* ------------------------- numbers of the code ------------------------- *)

\* JavaScript null (targetShip, followIndex).
null == -1

\* Math.PI, in degrees.
PI == 180

\* Fixed-point scale of Math.cos / Math.sin.
CosScale == 100

\* Math.random() yields k / RandomScale.
RandomScale == 1000

\* A NaN of JavaScript (a colour channel that does not parse).
NaN == -999

\* setTimeout(() => this.init(), 100): the delay in milliseconds.
DebounceDelay == 100

\* Milliseconds in one step of the resize timer's count.
TimeUnit == DebounceDelay

\* The characters of a colour string: the hex digits 0-9 and a-f are 0 .. 15,
\* A-F are UpperA .. UpperA + 5, any other letter is NonHex, '#' is Hash.
UpperA == 16
NonHex == 22
Hash == 23

\* round(100 * cos(a)) for a = 0 .. 90 degrees.
CosTable ==
  << 100, 100, 100, 100, 100, 100, 99, 99, 99, 99, 98, 98, 98,
     97, 97, 97, 96, 96, 95, 95, 94, 93, 93, 92, 91, 91,
     90, 89, 88, 87, 87, 86, 85, 84, 83, 82, 81, 80, 79,
     78, 77, 75, 74, 73, 72, 71, 69, 68, 67, 66, 64, 63,
     62, 60, 59, 57, 56, 54, 53, 52, 50, 48, 47, 45, 44,
     42, 41, 39, 37, 36, 34, 33, 31, 29, 28, 26, 24, 22,
     21, 19, 17, 16, 14, 12, 10, 9, 7, 5, 3, 2, 0 >>

\* Math.cos(a) * CosScale, a in degrees (any integer).
Cos(a) ==
  LET m == a % (2 * PI) IN
  IF m <= PI \div 2 THEN CosTable[m + 1]
  ELSE IF m <= PI THEN -CosTable[PI - m + 1]
  ELSE IF m <= PI + PI \div 2 THEN -CosTable[m - PI + 1]
  ELSE CosTable[2 * PI - m + 1]

\* Math.sin(a) * CosScale.
Sin(a) == Cos(a - PI \div 2)

\* Math.abs
Abs(v) == IF v < 0 THEN -v ELSE v

\* Math.sign
Sign(v) == IF v > 0 THEN 1 ELSE IF v < 0 THEN -1 ELSE 0

\* Math.max / Math.min
Max(a, b) == IF a >= b THEN a ELSE b
Min(a, b) == IF a <= b THEN a ELSE b

\* A quotient rounded toward zero (a double product cut to the model's unit).
Quot(a, b) == IF a >= 0 THEN a \div b ELSE -((-a) \div b)

\* JavaScript's % on numbers: the result takes the sign of the dividend.
JsMod(a, m) == IF a >= 0 THEN a % m ELSE -((-a) % m)

\* floor(Math.sqrt(v)), by bisection.
RECURSIVE SqrtBetween(_, _, _)
SqrtBetween(v, lo, hi) ==
  IF lo >= hi THEN lo
  ELSE LET mid == (lo + hi + 1) \div 2 IN
       IF mid * mid <= v THEN SqrtBetween(v, mid, hi)
       ELSE SqrtBetween(v, lo, mid - 1)

Sqrt(v) == SqrtBetween(v, 0, 46340)

\* Math.sqrt(dx * dx + dy * dy)
Hypot(dx, dy) == Sqrt(dx * dx + dy * dy)

\* atan(n / d) in degrees for 0 <= n <= d, d > 0:
\* atan(z) ~ z * (45 + 15.64 * (1 - z)), within a third of a degree.
AtanRatio(n, d) ==
  LET z == (n * 1000) \div d IN
  (z * (45000 + (1564 * (1000 - z)) \div 100) + 500000) \div 1000000

\* Math.atan2(dy, dx) in degrees, in -180 .. 180; atan2(0, 0) = 0.
Atan2(dy, dx) ==
  LET ax == Abs(dx)
      ay == Abs(dy)
      a  == IF ax = 0 /\ ay = 0 THEN 0
            ELSE IF ax >= ay THEN AtanRatio(ay, ax)
            ELSE (PI \div 2) - AtanRatio(ax, ay)
      b  == IF dx >= 0 THEN a ELSE PI - a
  IN IF dy >= 0 THEN b ELSE -b

\* while (dirDiff > PI) dirDiff -= 2 PI; while (dirDiff < -PI) dirDiff += 2 PI
RECURSIVE NormalizeDiff(_)
NormalizeDiff(dirDiff) ==
  IF dirDiff > PI THEN NormalizeDiff(dirDiff - 2 * PI)
  ELSE IF dirDiff < -PI THEN NormalizeDiff(dirDiff + 2 * PI)
  ELSE dirDiff

\* this.direction = (this.direction + 2 * Math.PI) % (2 * Math.PI)
NormalizeDirection(direction) == JsMod(direction + 2 * PI, 2 * PI)


(* ------------------------------- state --------------------------------- *)

VARIABLES
  window,       \* window.innerWidth / innerHeight, in sub-pixels
  canvas,       \* canvas.width / canvas.height as set by Starfield.init
  props,        \* Starfield.props: spaceShipCount, spaceShipProps
  spaceShips,   \* Starfield.spaceShips: index -> SpaceShip
  initDebounce, \* TRUE while the resize timer this.initDebounce is pending
  frames,       \* calls of Starfield.draw so far
  lastUpdate,   \* index -> the locals of that ship's latest update()
  lastTail,     \* index -> the segments stroked by its latest drawTail()
  variant,     \* which of the repository's Starfield classes was constructed
  burst,        \* the largest number of "resize" events in one burst of this run
  stars,        \* Starfield.stars: the sequence of stars
  quiet,        \* time since the latest "resize" event, in TimeUnit steps
  resizes,      \* "resize" events since the latest init()
  currentTime,  \* the time of the latest frame, in ms
  lastTime,     \* Starfield.lastTime (the classes that scale by elapsed time)
  lastStroke,   \* index -> segment -> the strokeStyle of its latest drawTail()
  pendingDraws, \* invocations of Starfield.draw pending as a timer or a frame request
  population,   \* which array this.spaceShips is: init() makes a new one
  fillStyle,    \* ctx.fillStyle of the Starfield canvas, as colour channels
  lastFill      \* star -> the fillStyle in effect at its ctx.fill() in the latest frame

vars ==
  << window, canvas, props, spaceShips, initDebounce, frames, lastUpdate, lastTail,
     variant, burst, stars, quiet, resizes, currentTime, lastTime, lastStroke,
     pendingDraws, population, fillStyle, lastFill >>

(* ---------------------------- configuration ---------------------------- *)

\* SpaceShip props as passed in Starfield.props.spaceShipProps.  speed is in
\* pixels per tick, angles in degrees, distances in sub-pixels, fractions in
\* percent.
CruiseProps ==
  [ speed |-> 3, curveIntensity |-> 20, curveChangeRate |-> 0,
    tailLength |-> 3, tailMaxDistance |-> 500, tailOpacity |-> 100,
    edgeDistance |-> 300, edgeCurveIntensity |-> 30,
    stuckThreshold |-> 1, stuckEscapeMultiplier |-> 3,
    followEnabled |-> TRUE, followStrength |-> 50, followDistance |-> 3000,
    followIndex |-> null,
    color |-> << Hash, 15, 15, 15, 15, 15, 15 >>,
    tailStartColor |-> << >>, tailEndColor |-> << >> ]

\* No following, a faster ship, a wide edge zone, a weak edge curve.
DriftProps ==
  [ CruiseProps EXCEPT !.speed = 6, !.followEnabled = FALSE,
                       !.edgeDistance = 400, !.edgeCurveIntensity = 1,
                       !.tailLength = 2 ]

\* A strong edge curve in an edge zone half a narrow canvas wide, and a
\* trail that keeps every sample of the frames explored.
EdgeProps ==
  [ CruiseProps EXCEPT !.speed = 1,
                       !.edgeDistance = 800, !.edgeCurveIntensity = 150,
                       !.tailLength = 8, !.tailMaxDistance = 250,
                       !.followIndex = 0 ]

\* The same with a faster ship and a weaker curve.
FastEdgeProps ==
  [ EdgeProps EXCEPT !.speed = 2, !.edgeCurveIntensity = 70 ]

\* The same with a curve of a few degrees per tick.
SoftEdgeProps ==
  [ EdgeProps EXCEPT !.edgeCurveIntensity = 8, !.followIndex = null ]

\* A curve intensity of several turns, resampled every other tick; no trail.
WildProps ==
  [ CruiseProps EXCEPT !.curveIntensity = 1000, !.curveChangeRate = 50,
                       !.tailLength = 0,
                       !.followIndex = 3 ]

ShipPropsChoices == { CruiseProps, DriftProps, WildProps }

\* Colour strings: "#ff0000", "0000FF", "#3a7Fc0", and the malformed "#fff"
\* and "red" (of which 'r' is no hex digit).
Red == << Hash, 15, 15, 0, 0, 0, 0 >>
BlueUpper == << 0, 0, 0, 0, UpperA + 5, UpperA + 5 >>
Mixed == << Hash, 3, 10, 7, UpperA + 5, 12, 0 >>
ShortWhite == << Hash, 15, 15, 15 >>
RedWord == << NonHex, 14, 13 >>

ColorChoices == { Red, BlueUpper, Mixed, ShortWhite, RedWord }

\* A long tail, in every pair of colours, with a followDistance that is a
\* distance or is negative.
ColorPropsChoices ==
  { [CruiseProps EXCEPT !.tailMaxDistance = 2000,
                        !.tailStartColor = start,
                        !.tailEndColor = end,
                        !.followDistance = distance]
    : start \in ColorChoices, end \in ColorChoices \cup { << >> },
      distance \in { 3000, -1 } }

EdgePropsChoices == { EdgeProps, FastEdgeProps, SoftEdgeProps }

\* Window sizes (innerWidth, innerHeight) in sub-pixels.
TallWindow == [width |-> 1600, height |-> 4800]

WindowChoices == { [width |-> 1600, height |-> 1600], TallWindow }

\* The values Math.random() takes in the model, as k of k / RandomScale.
RandomChoices == { 0, 999 }

\* The three draws of one SpaceShip.init: for x, for y, for direction.
InitDraws ==
  { [rx |-> 0,   ry |-> 0,   rd |-> 625],
    [rx |-> 500, ry |-> 500, rd |-> 0],
    [rx |-> 0,   ry |-> 500, rd |-> 500] }

\* Starfield props of the stars: speed in pixels per 1/60 s, magnification
\* in pixels; color is "multi" or one fixed colour.
StarProps ==
  [ starCount |-> 1, speed |-> 5, fpsMax |-> 50, color |-> "multi",
    magnification |-> 4 ]

\* The same with every star in one fixed colour.
PlainStarProps == [ StarProps EXCEPT !.color = "#ff9" ]

\* No star at all.
NoStarProps == [ StarProps EXCEPT !.starCount = 0 ]

StarPropsChoices ==
  { [sp EXCEPT !.starCount = n] : sp \in { StarProps, PlainStarProps },
                                  n \in 1 .. MaxStars }

\* The draws of one star in Starfield.init: for x, y, z and, in "multi"
\* mode, for the three channels of its colour.
StarDraws ==
  { [x |-> 0,   y |-> 0,   z |-> 0,   r |-> 0,   g |-> 0,   b |-> 0],
    [x |-> 500, y |-> 500, z |-> 500, r |-> 999, g |-> 500, b |-> 0],
    [x |-> 999, y |-> 999, z |-> 999, r |-> 999, g |-> 999, b |-> 999] }

\* The two draws of a star that is recycled: for x and for y.
RecycleDraws == { [x |-> 0, y |-> 999], [x |-> 500, y |-> 500] }

\* The period of requestAnimationFrame on a 60 Hz display, in ms.
RefreshInterval == 16

\* The time between two frames where draw() is driven by
\* requestAnimationFrame alone: one period, three periods (two frames
\* omitted), a second (the page was hidden).
GapChoices == { RefreshInterval, 3 * RefreshInterval, 1000 }

\* setTimeout(.., 1000 / fpsMax): the shortest time between two frames, in ms.
FrameInterval(sp) == 1000 \div sp.fpsMax

\* The time between two frames where draw() waits for the timeout and then
\* for requestAnimationFrame: the timeout, or twice as long.
PacedGaps(sp) == { FrameInterval(sp), 2 * FrameInterval(sp) }

(* --------------------------- SpaceShip.init ---------------------------- *)

\* if (!this.props.tailStartColor) this.props.tailStartColor = this.props.color
\* (null and the empty string are both << >>)
TailStartColor(shipProps) ==
  IF shipProps.tailStartColor = << >> THEN shipProps.color
  ELSE shipProps.tailStartColor

\* if (!this.props.tailEndColor) this.props.tailEndColor = this.props.tailStartColor
TailEndColor(shipProps) ==
  IF shipProps.tailEndColor = << >> THEN TailStartColor(shipProps)
  ELSE shipProps.tailEndColor

\* this.props = { defaults, ...props }: spaceShipProps plus index, swarmCount,
\* with the tail colours filled in by the constructor.
ShipProps(shipProps, index, swarmCount) ==
  [ speed |-> shipProps.speed,
    curveIntensity |-> shipProps.curveIntensity,
    curveChangeRate |-> shipProps.curveChangeRate,
    tailLength |-> shipProps.tailLength,
    tailMaxDistance |-> shipProps.tailMaxDistance,
    tailOpacity |-> shipProps.tailOpacity,
    edgeDistance |-> shipProps.edgeDistance,
    edgeCurveIntensity |-> shipProps.edgeCurveIntensity,
    stuckThreshold |-> shipProps.stuckThreshold,
    stuckEscapeMultiplier |-> shipProps.stuckEscapeMultiplier,
    followEnabled |-> shipProps.followEnabled,
    followStrength |-> shipProps.followStrength,
    followDistance |-> shipProps.followDistance,
    followIndex |-> shipProps.followIndex,
    color |-> shipProps.color,
    tailStartColor |-> TailStartColor(shipProps),
    tailEndColor |-> TailEndColor(shipProps),
    index |-> index,
    swarmCount |-> swarmCount ]

\* centerStart + centerSize * (0.5 + indexOffset * spreadFactor
\*                                 + (Math.random() - 0.5) * (1 - spreadFactor)),
\* clamped into the centre area; indexOffset = index / max(1, swarmCount - 1) - 0.5,
\* spreadFactor = 0.3.  The bracket is computed in thousandths.
InitCoordinate(size, p, r) ==
  LET centerStart == size \div 4
      centerEnd   == (3 * size) \div 4
      centerSize  == centerEnd - centerStart
      factor      == 500 + Quot(300 * p.index, Max(1, p.swarmCount - 1)) - 150
                         + Quot(7 * (r - 500), 10)
      c           == centerStart + Quot(centerSize * factor, 1000)
  IN Max(centerStart, Min(centerEnd, c))

\* this.direction = Math.random() * Math.PI * 2
InitDirection(r) == Quot(r * 2 * PI, RandomScale)

\* A variant of init() that starts every ship without a curve.
ZeroCurveValue(p) == 0 * p.curveIntensity

\* this.curveValue = (index / swarmCount - 0.5) * curveIntensity
InitCurveValue(p) ==
  Quot((2 * p.index - p.swarmCount) * p.curveIntensity, 2 * p.swarmCount)

\* new SpaceShip(canvas, props): the constructor's fields, then init().
NewSpaceShip(cv, p, draw) ==
  [ props |-> p,
    x |-> InitCoordinate(cv.width, p, draw.rx),
    y |-> InitCoordinate(cv.height, p, draw.ry),
    direction |-> InitDirection(draw.rd),
    curveValue |-> InitCurveValue(p),
    positions |-> << >>,
    edgeProximityFrames |-> [left |-> 0, right |-> 0, top |-> 0, bottom |-> 0],
    lastPosition |-> [x |-> 0, y |-> 0],
    isStuck |-> FALSE,
    stuckFrames |-> 0,
    swarm |-> null,
    targetShip |-> null ]

(* -------------------------- SpaceShip.setSwarm ------------------------- *)

\* A variant of setSwarm without the test "followIndex !== this.props.index".
FollowTargetUnchecked(p, swarmLength) ==
  IF ~p.followEnabled \/ swarmLength <= 1 THEN null
  ELSE IF p.followIndex # null
       THEN p.followIndex % swarmLength
       ELSE (p.index + 1) % swarmLength

\* The index of the ship setSwarm makes the target (null: targetShip is left
\* as it is).
FollowTarget(p, swarmLength) ==
  IF ~p.followEnabled \/ swarmLength <= 1 THEN null
  ELSE IF p.followIndex # null
       THEN LET followIndex == JsMod(p.followIndex, swarmLength) IN
            IF followIndex # p.index THEN followIndex ELSE null
       ELSE (p.index + 1) % swarmLength

\* setSwarm(swarm): this.swarm is the array passed (array names it), the
\* target is one of its swarmLength ships.
SetSwarm(ship, array, swarmLength) ==
  LET t == FollowTarget(ship.props, swarmLength)
      member == [ship EXCEPT !.swarm = array]
  IN IF t = null THEN member ELSE [member EXCEPT !.targetShip = t]

(* ---------------------------- Starfield.init --------------------------- *)

\* this.spaceShips = []: the array of the next population.
NewArray(array) == 1 - array

\* A variant of Starfield.init that passes the swarm to each ship as soon as
\* the ship is pushed, when the array holds the ships up to that one.
BuildSwarmOnePass(cv, sp, draws, array) ==
  LET n == sp.spaceShipCount IN
  [i \in 0 .. n - 1 |->
     SetSwarm(NewSpaceShip(cv, ShipProps(sp.spaceShipProps, i, n), draws[i]),
              array, i + 1)]

\* The ships of Starfield.init: one SpaceShip per index pushed to the new
\* array, then setSwarm on each.
BuildSwarm(cv, sp, draws, array) ==
  LET n     == sp.spaceShipCount
      built == [i \in 0 .. n - 1 |->
                  NewSpaceShip(cv, ShipProps(sp.spaceShipProps, i, n), draws[i])]
  IN [i \in 0 .. n - 1 |-> SetSwarm(built[i], array, n)]

\* this.centerX = canvas.width / 2, this.centerY = canvas.height / 2
CenterX(cv) == cv.width \div 2
CenterY(cv) == cv.height \div 2

\* Math.random() * size - center
StarCoordinate(r, size, center) == Quot(r * size, RandomScale) - center

\* Math.floor(Math.random() * 256)
ColorChannel(r) == (r * 256) \div RandomScale

\* One star of Starfield.init; x, y and z are in sub-pixels.
NewStar(cv, sp, draw) ==
  [ x |-> StarCoordinate(draw.x, cv.width, CenterX(cv)),
    y |-> StarCoordinate(draw.y, cv.height, CenterY(cv)),
    z |-> Quot(draw.z * cv.width, RandomScale),
    color |-> IF sp.color = "multi"
              THEN << ColorChannel(draw.r), ColorChannel(draw.g), ColorChannel(draw.b) >>
              ELSE sp.color ]

\* The stars of Starfield.init.
BuildStars(cv, sp, draws) == [i \in 1 .. sp.starCount |-> NewStar(cv, sp, draws[i])]

\* What update() left in its locals; before the first update, nothing.
NoUpdate ==
  [ ran |-> FALSE, x |-> 0, y |-> 0, nearEdges |-> {},
    idealDirections |-> << >>,
    edgeCurveApplied |-> FALSE, followingApplied |-> FALSE,
    curveApplied |-> FALSE, targetSeen |-> << >> ]

\* The fillStyle of a context whose canvas has just been sized (init() sets
\* canvas.width and canvas.height, which resets the context): black.
DefaultFillStyle == [r |-> 0, g |-> 0, b |-> 0]

\* The colour the canvas takes for the fixed colour of the props, "#ff9".
CssChannels(color) ==
  IF color = "#ff9" THEN [r |-> 255, g |-> 255, b |-> 153] ELSE DefaultFillStyle

\* The colour the canvas takes for star.color: `rgb(r, g, b)` in "multi"
\* mode, the fixed colour of the props otherwise.
StarStyle(star, sp) ==
  IF sp.color = "multi"
  THEN [r |-> star.color[1], g |-> star.color[2], b |-> star.color[3]]
  ELSE CssChannels(star.color)

\* The class with fpsMax: ctx.fill() and then ctx.fillStyle = star.color.
\* The first star is filled in the style the context has when draw() starts,
\* every other star in the colour of the star before it.
StylesAtFill(field, sp, style) ==
  [i \in 1 .. Len(field) |->
     IF i = 1 THEN style ELSE StarStyle(field[i - 1], sp)]

\* The class that takes deltaTime as it is: ctx.fillStyle is set before the
\* loop (fixed colour) or before each ctx.fill() ("multi").
StylesSetFirst(field, sp) ==
  [i \in 1 .. Len(field) |->
     IF sp.color = "multi" THEN StarStyle(field[i], sp) ELSE CssChannels(sp.color)]

\* ctx.fillStyle after the loop over the stars.  (SpaceShip.draw() sets
\* fillStyle between ctx.save() and ctx.restore(), which leaves the
\* fillStyle of the Starfield as it was.)
StyleAfterStars(field, sp, style) ==
  IF Len(field) = 0 THEN style ELSE StarStyle(field[Len(field)], sp)

\* A variant of the end of draw() that schedules two successors.
ScheduleTwice(pending) == pending + 2

\* setTimeout(() => requestAnimationFrame(this.draw.bind(this)), 1000 / fpsMax):
\* one more invocation of draw is pending.
ScheduleDraw(pending) == pending + 1

\* requestAnimationFrame(this.draw) of the classes that scale by elapsed
\* time: one more invocation of draw is pending.
RequestFrame(pending) == pending + 1

\* The pending invocations left when draw() starts: the constructor of the
\* class with fpsMax calls the first draw() itself, every other draw() is
\* one of the pending invocations.
Invoked(pending, direct) == IF direct THEN pending ELSE pending - 1

\* The state after new Starfield(canvas, props) has run init(): the class
\* taken from variants, the window size from windows, the props of the stars
\* from starChoices, spaceShipCount from counts and spaceShipProps from
\* choices, the length of the bursts of "resize" events from bursts.
InitField(variants, windows, starChoices, counts, choices, bursts) ==
  /\ variant \in variants
  /\ burst \in bursts
  /\ population = 0
  /\ fillStyle = DefaultFillStyle
  /\ lastFill = << >>
  /\ window \in windows
  /\ canvas = window
  /\ \E n \in counts, shipProps \in choices, sp \in starChoices :
        props = [spaceShipCount |-> n, spaceShipProps |-> shipProps,
                 starCount |-> sp.starCount, speed |-> sp.speed,
                 fpsMax |-> sp.fpsMax, color |-> sp.color,
                 magnification |-> sp.magnification]
  /\ \E draws \in [0 .. props.spaceShipCount - 1 -> InitDraws] :
        spaceShips = BuildSwarm(canvas, props, draws, population)
  /\ \E draws \in [1 .. props.starCount -> StarDraws] :
        stars = BuildStars(canvas, props, draws)
  /\ initDebounce = FALSE
  /\ quiet = 0
  /\ resizes = 0
  /\ frames = 0
  /\ currentTime = 0
  /\ lastTime = 0
  /\ lastUpdate = [i \in DOMAIN spaceShips |-> NoUpdate]
  /\ lastTail = [i \in DOMAIN spaceShips |-> {}]
  /\ lastStroke = [i \in DOMAIN spaceShips |-> << >>]
  /\ pendingDraws = IF variant = "fpsMax" THEN 0 ELSE RequestFrame(0)

\* The Starfield with ships and no star, with the window size taken from
\* windows and the spaceShipProps from choices; "resize" events come one at
\* a time.
InitWith(windows, choices) ==
  InitField({"fpsMax"}, windows, {NoStarProps}, 1 .. MaxShips, choices, {1})

Init == InitWith({ [width |-> 1600, height |-> 1600] }, ShipPropsChoices)

EdgeInit == InitWith({TallWindow}, EdgePropsChoices)

(* --------------------------- SpaceShip.update -------------------------- *)

\* A variant of the trail that appends the sample at the end.
Push(positions, sample) == positions \o << sample >>

\* this.positions.unshift(sample)
Unshift(positions, sample) == << sample >> \o positions

\* A variant of the trail that never pops a sample.
KeepPositions(positions, tailLength) == positions

\* if (this.positions.length > this.props.tailLength) this.positions.pop()
LimitPositions(positions, tailLength) ==
  IF Len(positions) > tailLength
  THEN SubSeq(positions, 1, Len(positions) - 1)
  ELSE positions

\* A variant of the movement test with a threshold of twice the speed.
MovementBelowTwice(movement, speed) == 10 * movement < 20 * speed * CosScale

\* movement < this.props.speed * 0.2, movement in sub-pixels
MovementIsMinimal(movement, speed) == 10 * movement < 2 * speed * CosScale

\* A variant of the movement test that counts every tick as one without
\* movement.
CountEveryTick(ship, movement) ==
  LET n == ship.stuckFrames + 1 IN
  [ship EXCEPT !.stuckFrames = n,
               !.isStuck = IF n > ship.props.stuckThreshold THEN TRUE ELSE @]

\* The stuck counter and flag after the movement test.
DetectStuck(ship, movement) ==
  IF MovementIsMinimal(movement, ship.props.speed)
  THEN LET n == ship.stuckFrames + 1 IN
       [ship EXCEPT !.stuckFrames = n,
                    !.isStuck = IF n > ship.props.stuckThreshold THEN TRUE ELSE @]
  ELSE LET n == Max(0, ship.stuckFrames - 2) IN
       [ship EXCEPT !.stuckFrames = n,
                    !.isStuck = IF n = 0 THEN FALSE ELSE @]

\* A variant of the first part of update() that moves along the heading
\* with the curve of this tick already added.
IntegrateTurned(ship) ==
  LET direction == ship.direction + ship.curveValue
      x == ship.x + Cos(direction) * ship.props.speed
      y == ship.y + Sin(direction) * ship.props.speed
      lastPosition == [x |-> ship.x, y |-> ship.y]
      sample == [x |-> x, y |-> y, direction |-> ship.direction]
      moved == [ship EXCEPT
                  !.lastPosition = lastPosition,
                  !.x = x,
                  !.y = y,
                  !.positions = LimitPositions(Unshift(@, sample),
                                               ship.props.tailLength)]
  IN DetectStuck(moved, Hypot(x - lastPosition.x, y - lastPosition.y))

\* The first part of update(): save lastPosition, move by speed along
\* direction, store the sample in the trail, detect "stuck".
Integrate(ship) ==
  LET x == ship.x + Cos(ship.direction) * ship.props.speed
      y == ship.y + Sin(ship.direction) * ship.props.speed
      lastPosition == [x |-> ship.x, y |-> ship.y]
      sample == [x |-> x, y |-> y, direction |-> ship.direction]
      moved == [ship EXCEPT
                  !.lastPosition = lastPosition,
                  !.x = x,
                  !.y = y,
                  !.positions = LimitPositions(Unshift(@, sample),
                                               ship.props.tailLength)]
  IN DetectStuck(moved, Hypot(x - lastPosition.x, y - lastPosition.y))

\* curveStrength = edgeCurveIntensity * (1 - distance / edgeDistance), times
\* stuckEscapeMultiplier when stuck or too long near this edge.
CurveStrength(p, distance, isStuck, proximityFrames) ==
  LET curveStrength ==
        Quot(p.edgeCurveIntensity * (p.edgeDistance - distance), p.edgeDistance)
  IN IF isStuck \/ proximityFrames > p.stuckThreshold
     THEN curveStrength * p.stuckEscapeMultiplier
     ELSE curveStrength

\* A variant of the edge curve that turns by the longer arc.
CurveAway(direction, idealDirection, curveStrength) ==
  direction - curveStrength * Sign(NormalizeDiff(idealDirection - direction))

\* this.direction += curveStrength * Math.sign(dirDiff)
CurveToward(direction, idealDirection, curveStrength) ==
  direction + curveStrength * Sign(NormalizeDiff(idealDirection - direction))

\* One of the four edge blocks.  c carries the ship and the locals
\* nearEdges, edgeCount, edgeCurveApplied, and the idealDirection each block
\* that ran has used.
\* A variant of the edge blocks in which being near one edge clears the
\* counters of the other three.
CountNearOnly(proximityFrames, edge) ==
  [e \in DOMAIN proximityFrames |->
     IF e = edge THEN proximityFrames[e] + 1 ELSE 0]

\* this.edgeProximityFrames.<edge>++
CountNear(proximityFrames, edge) ==
  [proximityFrames EXCEPT ![edge] = @ + 1]

EdgeBlock(c, edge, isNear, distance, idealDirection) ==
  IF isNear
  THEN LET n == CountNear(c.ship.edgeProximityFrames, edge)[edge]
           strength == CurveStrength(c.ship.props, distance, c.ship.isStuck, n)
       IN [c EXCEPT
             !.nearEdges = @ \cup {edge},
             !.idealDirections = @ @@ (edge :> idealDirection),
             !.edgeCount = @ + 1,
             !.ship.edgeProximityFrames = CountNear(@, edge),
             !.ship.direction = CurveToward(@, idealDirection, strength),
             !.edgeCurveApplied = TRUE]
  ELSE [c EXCEPT !.ship.edgeProximityFrames[edge] = 0]

\* idealDirection of an edge block: straight away from the edge, or the
\* diagonal when one of the two adjacent edges is already in nearEdges.
IdealDirection(nearEdges, straight, first, firstDiagonal, second, secondDiagonal) ==
  IF first \in nearEdges THEN firstDiagonal
  ELSE IF second \in nearEdges THEN secondDiagonal
  ELSE straight

LeftEdge(c, cv) ==
  EdgeBlock(c, "left", c.ship.x < c.ship.props.edgeDistance, c.ship.x,
            IdealDirection(c.nearEdges, 0, "top", PI \div 4,
                           "bottom", (7 * PI) \div 4))

RightEdge(c, cv) ==
  EdgeBlock(c, "right", c.ship.x > cv.width - c.ship.props.edgeDistance,
            cv.width - c.ship.x,
            IdealDirection(c.nearEdges, PI, "top", (3 * PI) \div 4,
                           "bottom", (5 * PI) \div 4))

TopEdge(c, cv) ==
  EdgeBlock(c, "top", c.ship.y < c.ship.props.edgeDistance, c.ship.y,
            IdealDirection(c.nearEdges, PI \div 2, "left", PI \div 4,
                           "right", (3 * PI) \div 4))

BottomEdge(c, cv) ==
  EdgeBlock(c, "bottom", c.ship.y > cv.height - c.ship.props.edgeDistance,
            cv.height - c.ship.y,
            IdealDirection(c.nearEdges, (3 * PI) \div 2, "left", (7 * PI) \div 4,
                           "right", (5 * PI) \div 4))

\* The four edge blocks in the order of the code: left, right, top, bottom.
AvoidEdges(ship, cv) ==
  LET c0 == [ship |-> ship, nearEdges |-> {}, idealDirections |-> << >>,
             edgeCount |-> 0, edgeCurveApplied |-> FALSE]
  IN BottomEdge(TopEdge(RightEdge(LeftEdge(c0, cv), cv), cv), cv)

\* if (edgeCount >= 2) this.direction += (Math.random() - 0.5) * 0.2
\* (0.2 rad = 11.46 degrees)
CornerJitter(c, r) ==
  IF c.edgeCount >= 2
  THEN [c EXCEPT !.ship.direction =
                    @ + Quot((2 * r - RandomScale) * 1146, 200 * RandomScale)]
  ELSE c

\* if (isStuck && stuckFrames > stuckThreshold * 2)
StuckTooLong(ship) ==
  ship.isStuck /\ ship.stuckFrames > ship.props.stuckThreshold * 2

\* direction += (Math.random() - 0.5) * Math.PI; stuckFrames = stuckThreshold
StuckEscape(c, r) ==
  IF StuckTooLong(c.ship)
  THEN [c EXCEPT
          !.ship.direction = @ + Quot((2 * r - RandomScale) * PI, 2 * RandomScale),
          !.ship.stuckFrames = c.ship.props.stuckThreshold]
  ELSE c

\* applyFollowingBehavior(): the distance to the target as the ship sees it.
TargetDistance(ship, target) == Hypot(target.x - ship.x, target.y - ship.y)

\* applyFollowingBehavior() returns true
FollowingApplies(ship, swarm) ==
  /\ ship.props.followEnabled
  /\ ship.targetShip # null
  /\ TargetDistance(ship, swarm[ship.targetShip]) <= ship.props.followDistance

\* A variant of the adjustment whose strength grows with the distance.
AdjustmentGrowing(p, dirDiff, distance) ==
  Quot(dirDiff * p.followStrength * (p.followDistance + distance),
       100 * p.followDistance)

\* dirDiff * adjustmentStrength, with
\* adjustmentStrength = followStrength * (1 - distance / followDistance)
Adjustment(p, dirDiff, distance) ==
  Quot(dirDiff * p.followStrength * (p.followDistance - distance),
       100 * p.followDistance)

\* this.direction += dirDiff * followStrength * (1 - distance / followDistance)
FollowAdjustment(ship, target) ==
  LET distance == TargetDistance(ship, target)
      targetDirection == Atan2(target.y - ship.y, target.x - ship.x)
      dirDiff == NormalizeDiff(targetDirection - ship.direction)
  IN Adjustment(ship.props, dirDiff, distance)

\* Math.random() < this.props.curveChangeRate
CurveChanges(p, r) == r * 100 < p.curveChangeRate * RandomScale

\* A variant of the resample without the "- 0.5".
ResampledCurveOneSided(p, r) == Quot(2 * r * p.curveIntensity, 2 * RandomScale)

\* this.curveValue = (Math.random() - 0.5) * this.props.curveIntensity
ResampledCurve(p, r) == Quot((2 * r - RandomScale) * p.curveIntensity, 2 * RandomScale)

\* The random curve: resample with probability curveChangeRate, then add.
RandomCurve(ship, rChange, rCurve) ==
  LET curveValue == IF CurveChanges(ship.props, rChange)
                    THEN ResampledCurve(ship.props, rCurve)
                    ELSE ship.curveValue
  IN [ship EXCEPT !.curveValue = curveValue, !.direction = @ + curveValue]

\* A variant of update() that follows or wanders in every tick.
AlwaysFollowOrWander(edgeCurveApplied) == TRUE

\* if (!edgeCurveApplied) ...: whether following and the random curve may run.
MayFollowOrWander(edgeCurveApplied) == ~edgeCurveApplied

\* The block "if (!edgeCurveApplied) { follow, else random curve; reset the
\* edge counters }".  Adds the locals followingApplied, curveApplied and the
\* target position read.
FollowOrWander(c, swarm, rChange, rCurve) ==
  IF MayFollowOrWander(c.edgeCurveApplied)
  THEN LET following == FollowingApplies(c.ship, swarm)
           reads == c.ship.props.followEnabled /\ c.ship.targetShip # null
           target == swarm[c.ship.targetShip]
           steered == IF following
                      THEN [c.ship EXCEPT !.direction =
                                            @ + FollowAdjustment(c.ship, target)]
                      ELSE RandomCurve(c.ship, rChange, rCurve)
       IN [ship |-> [steered EXCEPT !.edgeProximityFrames =
                        [left |-> 0, right |-> 0, top |-> 0, bottom |-> 0]],
           nearEdges |-> c.nearEdges,
           edgeCurveApplied |-> c.edgeCurveApplied,
           followingApplied |-> following,
           curveApplied |-> ~following,
           targetSeen |-> IF reads THEN << target.x, target.y >> ELSE << >>]
  ELSE [ship |-> c.ship,
        nearEdges |-> c.nearEdges,
        edgeCurveApplied |-> c.edgeCurveApplied,
        followingApplied |-> FALSE,
        curveApplied |-> FALSE,
        targetSeen |-> << >>]

\* A variant of the hard limits without the lower one.
HardLimitAbove(v, size) == IF v > size THEN size ELSE v

\* "Hard limits": if (x < 0) x = 0; if (x > width) x = width; same for y.
HardLimit(v, size) == IF v < 0 THEN 0 ELSE IF v > size THEN size ELSE v

\* The end of update(): hard limits, then the direction is normalized.
Finish(ship, cv) ==
  [ship EXCEPT !.x = HardLimit(@, cv.width),
               !.y = HardLimit(@, cv.height),
               !.direction = NormalizeDirection(@)]

\* update() of one ship with the draws r of Math.random(); swarm is the swarm
\* as it is when this ship is updated.
Update(ship, swarm, cv, r) ==
  LET moved   == Integrate(ship)
      edges   == AvoidEdges(moved, cv)
      escaped == StuckEscape(CornerJitter(edges, r.jitter), r.escape)
      steered == FollowOrWander(escaped, swarm, r.change, r.curve)
  IN [ ship |-> Finish(steered.ship, cv),
       locals |-> [ ran |-> TRUE, x |-> moved.x, y |-> moved.y,
                    nearEdges |-> steered.nearEdges,
                    idealDirections |-> edges.idealDirections,
                    edgeCurveApplied |-> steered.edgeCurveApplied,
                    followingApplied |-> steered.followingApplied,
                    curveApplied |-> steered.curveApplied,
                    targetSeen |-> steered.targetSeen ] ]

\* The draws of Math.random() one update() can make: a draw the update does
\* not make is fixed to 0.
UpdateDraws(ship, swarm, cv) ==
  LET moved   == Integrate(ship)
      edges   == AvoidEdges(moved, cv)
      wanders == /\ MayFollowOrWander(edges.edgeCurveApplied)
                 /\ ~FollowingApplies(edges.ship, swarm)
      some(b) == IF b THEN RandomChoices ELSE {0}
  IN { r \in [ jitter : some(edges.edgeCount >= 2),
               escape : some(StuckTooLong(moved)),
               change : some(wanders),
               curve  : some(wanders) ] :
         r.curve = 0 \/ CurveChanges(ship.props, r.change) }

(* -------------------------- SpaceShip.drawTail ------------------------- *)

\* The distance between positions[i - 1] and positions[i] of the code
\* (the sequence of the model starts at 1, the array of the code at 0).
SegmentLength(positions, i) ==
  Hypot(positions[i + 1].x - positions[i].x, positions[i + 1].y - positions[i].y)

\* The first loop: distances[] is filled until totalDistance exceeds
\* tailMaxDistance (the segment that exceeds it is still pushed).
RECURSIVE Distances(_, _, _, _)
Distances(positions, tailMaxDistance, i, totalDistance) ==
  IF i >= Len(positions) THEN << >>
  ELSE LET distance == SegmentLength(positions, i) IN
       IF totalDistance + distance > tailMaxDistance
       THEN << distance >>
       ELSE << distance >>
            \o Distances(positions, tailMaxDistance, i + 1, totalDistance + distance)

\* opacity * tailMaxDistance:
\* Math.max(0, tailOpacity * (1 - currentDistance / tailMaxDistance))
Opacity(p, currentDistance) ==
  Max(0, p.tailOpacity * (p.tailMaxDistance - currentDistance))

\* A variant of drawTail() without the break on opacity <= 0.
StrokesDespiteOpacity(p, currentDistance, isNaN) == TRUE

\* if (opacity <= 0) break: whether the segment is stroked.  A NaN distance
\* (distances[i - 1] undefined) makes both comparisons of the loop false.
StrokesSegment(p, currentDistance, isNaN) ==
  isNaN \/ ~(Opacity(p, currentDistance) <= 0)

\* The second loop: the segments i that are stroked.
RECURSIVE Strokes(_, _, _, _, _, _)
Strokes(p, positions, distances, i, currentDistance, isNaN) ==
  IF i >= Len(positions) THEN {}
  ELSE LET nan == isNaN \/ i > Len(distances)
           d   == IF nan THEN 0 ELSE currentDistance + distances[i]
       IN IF ~StrokesSegment(p, d, nan) THEN {}
          ELSE IF ~nan /\ d > p.tailMaxDistance THEN {i}
          ELSE {i} \cup Strokes(p, positions, distances, i + 1, d, nan)

\* drawTail(): the set of segments stroked.
DrawTail(ship) ==
  IF Len(ship.positions) < 2 THEN {}
  ELSE Strokes(ship.props, ship.positions,
               Distances(ship.positions, ship.props.tailMaxDistance, 1, 0),
               1, 0, FALSE)

(* ------------------------- the colours of the tail --------------------- *)

\* hex.replace('#', ''): the string without its first '#'.
RECURSIVE RemoveHash(_)
RemoveHash(hex) ==
  IF hex = << >> THEN << >>
  ELSE IF Head(hex) = Hash THEN Tail(hex)
  ELSE << Head(hex) >> \o RemoveHash(Tail(hex))

\* hex.substring(from, to), from and to counted from 0 as in the code.
Substring(hex, from, to) == SubSeq(hex, from + 1, Min(to, Len(hex)))

\* The characters parseInt(_, 16) accepts, and the value of one.
IsHexDigit(c) == c < NonHex
DigitValue(c) == IF c >= UpperA THEN c - UpperA + 10 ELSE c

\* parseInt(pair, 16) of a string of at most two characters: the value of
\* the longest prefix of hex digits, NaN when there is none.
ParseInt16(pair) ==
  IF pair = << >> \/ ~IsHexDigit(pair[1]) THEN NaN
  ELSE IF Len(pair) = 1 \/ ~IsHexDigit(pair[2]) THEN DigitValue(pair[1])
  ELSE 16 * DigitValue(pair[1]) + DigitValue(pair[2])

\* The three parseInt(hex.substring(..), 16) of both colour helpers.
Channels(hex) ==
  LET digits == RemoveHash(hex) IN
  [ r |-> ParseInt16(Substring(digits, 0, 2)),
    g |-> ParseInt16(Substring(digits, 2, 4)),
    b |-> ParseInt16(Substring(digits, 4, 6)) ]

\* Math.round(c1 + factor * (c2 - c1)), factor in percent; NaN for a NaN.
Interpolate(c1, c2, factor) ==
  IF c1 = NaN \/ c2 = NaN THEN NaN
  ELSE (100 * c1 + factor * (c2 - c1) + 50) \div 100

\* A variant of the formatting without padStart.
ToHexUnpadded(v) ==
  IF v = NaN THEN << NonHex, 10, NonHex >>
  ELSE IF v < 16 THEN << v >>
  ELSE << v \div 16, v % 16 >>

\* v.toString(16).padStart(2, '0'); NaN prints as "NaN".
ToHex(v) ==
  IF v = NaN THEN << NonHex, 10, NonHex >>
  ELSE IF v < 16 THEN << 0, v >>
  ELSE << v \div 16, v % 16 >>

\* interpolateColors(color1, color2, factor), factor in percent
InterpolateColors(color1, color2, factor) ==
  LET c1 == Channels(color1)
      c2 == Channels(color2)
  IN << Hash >> \o ToHex(Interpolate(c1.r, c2.r, factor))
                \o ToHex(Interpolate(c1.g, c2.g, factor))
                \o ToHex(Interpolate(c1.b, c2.b, factor))

\* getRGBAFromHex(hex, opacity): the fields of `rgba(r, g, b, opacity)`
GetRGBAFromHex(hex, opacity) ==
  LET c == Channels(hex) IN
  [ r |-> c.r, g |-> c.g, b |-> c.b, opacity |-> opacity ]

\* colorFactor = Math.min(1.0, currentDistance / (tailMaxDistance * 0.25)),
\* in percent
ColorFactor(p, currentDistance) ==
  Min(100, Quot(currentDistance * 400, p.tailMaxDistance))

\* currentDistance of the second loop of drawTail() at segment i.
RECURSIVE CurrentDistance(_, _)
CurrentDistance(positions, i) ==
  IF i = 0 THEN 0
  ELSE CurrentDistance(positions, i - 1) + SegmentLength(positions, i)

\* this.ctx.strokeStyle of one stroked segment
StrokeStyle(ship, i) ==
  LET p == ship.props
      currentDistance == CurrentDistance(ship.positions, i)
      interpolatedColor == InterpolateColors(p.tailStartColor, p.tailEndColor,
                                             ColorFactor(p, currentDistance))
  IN GetRGBAFromHex(interpolatedColor, Opacity(p, currentDistance))

\* drawTail(): the strokeStyle of every stroked segment.
StrokeStyles(ship) == [i \in DrawTail(ship) |-> StrokeStyle(ship, i)]

(* ----------------------------- Starfield ------------------------------- *)

\* for (const spaceShip of this.spaceShips) spaceShip.draw(): the ships are
\* updated and drawn one after the other, in index order; each one sees the
\* swarm as the ships before it left it.  The result is the set of outcomes
\* over the draws of Math.random().
\* A variant of update() whose following step also turns the target to the
\* heading of the ship that follows it.
AssignThisAndTarget(swarm, i, ship) ==
  LET own == [swarm EXCEPT ![i] = ship] IN
  IF ship.targetShip = null \/ ship.targetShip = i THEN own
  ELSE [own EXCEPT ![ship.targetShip].direction = ship.direction]

\* The objects update() assigns to: the fields of this, and nothing of
\* this.swarm, this.targetShip or this.props.
AssignThis(swarm, i, ship) == [swarm EXCEPT ![i] = ship]

RECURSIVE DrawShips(_, _, _, _, _)
DrawShips(swarm, updates, tails, cv, i) ==
  IF i \notin DOMAIN swarm THEN { [swarm |-> swarm, updates |-> updates, tails |-> tails] }
  ELSE UNION {
         LET u == Update(swarm[i], swarm, cv, r) IN
         DrawShips(AssignThis(swarm, i, u.ship),
                   [updates EXCEPT ![i] = u.locals],
                   [tails EXCEPT ![i] = DrawTail(u.ship)],
                   cv, i + 1)
         : r \in UpdateDraws(swarm[i], swarm, cv) }

(* ------------------------- the stars of a frame ------------------------ *)

\* screenX = centerX + (star.x / star.z) * width; x / 0 is NaN or an
\* Infinity, for both of which the model has the one value NaN.
ScreenX(star, cv) ==
  IF star.z = 0 THEN NaN ELSE CenterX(cv) + Quot(star.x * cv.width, star.z)

ScreenY(star, cv) ==
  IF star.z = 0 THEN NaN ELSE CenterY(cv) + Quot(star.y * cv.height, star.z)

\* size = magnification * (1 - star.z / width), in sub-pixels
StarSize(star, cv, sp) ==
  Quot(sp.magnification * CosScale * (cv.width - star.z), cv.width)

\* this.props.speed * 60 / this.props.fpsMax, in sub-pixels
FixedSpeed(sp) == Quot(sp.speed * 60 * CosScale, sp.fpsMax)

\* this.props.speed * 60 * deltaTime, deltaTime in ms, in sub-pixels
ElapsedSpeed(sp, deltaTime) == Quot(sp.speed * 60 * deltaTime, 1000 \div CosScale)

\* Math.min(this.lastTime ? (currentTime - this.lastTime) / 1000 : 0, 0.1), in ms
ClampedDeltaTime(last, now) == Min(IF last # 0 THEN now - last ELSE 0, 100)

\* (currentTime - this.lastTime) / 1000, in ms
DeltaTime(last, now) == now - last

\* A variant of the test that leaves alone a star at z = 0.
RecyclesBelowZero(z) == z < 0

\* if (star.z <= 0): the star is recycled
Recycles(z) == z <= 0

\* A variant of the recycling that gives back the star a colour drawn anew
\* (from the draw for x) in "multi" mode.
RecoloredStar(star, cv, draw) ==
  [star EXCEPT !.z = cv.width,
               !.x = StarCoordinate(draw.x, cv.width, CenterX(cv)),
               !.y = StarCoordinate(draw.y, cv.height, CenterY(cv)),
               !.color = IF star.color \in Seq(Int)
                         THEN << ColorChannel(draw.x), ColorChannel(draw.y),
                                 ColorChannel(draw.x) >>
                         ELSE @]

\* star.z = width; star.x = Math.random() * width - centerX; the same for y
RecycledStar(star, cv, draw) ==
  [star EXCEPT !.z = cv.width,
               !.x = StarCoordinate(draw.x, cv.width, CenterX(cv)),
               !.y = StarCoordinate(draw.y, cv.height, CenterY(cv))]

\* star.z -= speed; if (star.z <= 0) { ... }
MoveStar(star, cv, speed, draw) ==
  IF Recycles(star.z - speed)
  THEN RecycledStar(star, cv, draw)
  ELSE [star EXCEPT !.z = star.z - speed]

\* The loop over the stars of draw(), from star i on: the outcomes over the
\* draws of Math.random().
RECURSIVE DrawStars(_, _, _, _)
DrawStars(field, cv, speed, i) ==
  IF i > Len(field) THEN { field }
  ELSE UNION {
         DrawStars([field EXCEPT ![i] = MoveStar(field[i], cv, speed, draw)],
                   cv, speed, i + 1)
         : draw \in IF Recycles(field[i].z - speed)
                    THEN RecycleDraws
                    ELSE { [x |-> 0, y |-> 0] } }

(* ------------------------------ the frames ----------------------------- *)

\* The ships of one frame.
DrawSwarm ==
  \E o \in DrawShips(spaceShips, lastUpdate, lastTail, canvas, 0) :
     /\ spaceShips' = o.swarm
     /\ lastUpdate' = o.updates
     /\ lastTail' = o.tails
     /\ lastStroke' = [i \in DOMAIN o.swarm |-> StrokeStyles(o.swarm[i])]

\* Starfield.draw() of the class with fpsMax, gap ms after the frame before:
\* the stars, then the ships.
DrawAfter(gap) ==
  /\ variant = "fpsMax"
  /\ frames < MaxFrames
  /\ frames' = frames + 1
  /\ frames = 0 \/ pendingDraws > 0
  /\ currentTime' = currentTime + gap
  /\ stars' \in DrawStars(stars, canvas, FixedSpeed(props), 1)
  /\ pendingDraws' = ScheduleDraw(Invoked(pendingDraws, frames = 0))
  /\ lastFill' = StylesAtFill(stars, props, fillStyle)
  /\ fillStyle' = StyleAfterStars(stars, props, fillStyle)
  /\ DrawSwarm
  /\ UNCHANGED << window, canvas, props, initDebounce, variant, burst, quiet, resizes,
                  population,
                  lastTime >>

\* Starfield.draw(): one frame, as soon as the timeout allows.
Draw == DrawAfter(FrameInterval(props))

\* Starfield.draw(): one frame, on time or late.
PacedDraw == \E gap \in PacedGaps(props) : DrawAfter(gap)

\* Starfield.draw(currentTime) of the class that clamps deltaTime.
DrawClamped ==
  /\ variant = "clamped"
  /\ frames < MaxFrames
  /\ frames' = frames + 1
  /\ pendingDraws > 0
  /\ pendingDraws' = RequestFrame(Invoked(pendingDraws, FALSE))
  /\ lastFill' = << >>
  /\ fillStyle' = fillStyle
  /\ \E gap \in GapChoices : currentTime' = currentTime + gap
  /\ lastTime' = currentTime'
  /\ stars' \in DrawStars(stars, canvas,
                          ElapsedSpeed(props, ClampedDeltaTime(lastTime, currentTime')), 1)
  /\ UNCHANGED << window, canvas, props, initDebounce, variant, burst, quiet, resizes,
                  population,
                  spaceShips, lastUpdate, lastTail, lastStroke >>

\* Starfield.draw(currentTime) of the class that takes deltaTime as it is.
DrawElapsed ==
  /\ variant = "elapsed"
  /\ frames < MaxFrames
  /\ frames' = frames + 1
  /\ pendingDraws > 0
  /\ pendingDraws' = RequestFrame(Invoked(pendingDraws, FALSE))
  /\ lastFill' = StylesSetFirst(stars, props)
  /\ fillStyle' = IF props.color = "multi"
                  THEN StyleAfterStars(stars, props, fillStyle)
                  ELSE CssChannels(props.color)
  /\ \E gap \in GapChoices : currentTime' = currentTime + gap
  /\ lastTime' = currentTime'
  /\ stars' \in DrawStars(stars, canvas,
                          ElapsedSpeed(props, DeltaTime(lastTime, currentTime')), 1)
  /\ UNCHANGED << window, canvas, props, initDebounce, variant, burst, quiet, resizes,
                  population,
                  spaceShips, lastUpdate, lastTail, lastStroke >>

(* ------------------------------ the resize ----------------------------- *)

\* The steps of the resize timer's count in its delay.
DebounceSteps == DebounceDelay \div TimeUnit

\* A variant of the listener without clearTimeout: the timer set by the
\* first event of a burst keeps running.
KeepTimer(count) == count

\* clearTimeout(this.initDebounce); this.initDebounce = setTimeout(.., 100):
\* the time the pending timer has run, after a "resize" event.
RestartTimer(count) == 0

\* The "resize" listener.  The class with fpsMax registers it after the
\* constructor's first draw().
Resize ==
  /\ variant = "fpsMax" => frames >= 1
  /\ resizes < burst
  /\ resizes' = resizes + 1
  /\ window' \in WindowChoices \ {window}
  /\ initDebounce' = TRUE
  /\ quiet' = IF initDebounce THEN RestartTimer(quiet) ELSE 0
  /\ UNCHANGED << canvas, props, spaceShips, frames, lastUpdate, lastTail,
                  variant, burst, stars, currentTime, lastTime, lastStroke,
                  pendingDraws, population, fillStyle, lastFill >>

\* TimeUnit ms pass while the resize timer is pending.
Wait ==
  /\ initDebounce
  /\ quiet < DebounceSteps
  /\ quiet' = quiet + 1
  /\ UNCHANGED << window, canvas, props, spaceShips, initDebounce, frames,
                  lastUpdate, lastTail, variant, burst, stars, resizes, currentTime,
                  lastTime, lastStroke, pendingDraws, population, fillStyle,
                  lastFill >>

\* The resize timer fires: Starfield.init() rebuilds the population.
Rebuild ==
  /\ initDebounce
  /\ quiet = DebounceSteps
  /\ initDebounce' = FALSE
  /\ quiet' = 0
  /\ resizes' = 0
  /\ canvas' = window
  /\ population' = NewArray(population)
  /\ fillStyle' = DefaultFillStyle
  /\ lastFill' = << >>
  /\ \E draws \in [0 .. props.spaceShipCount - 1 -> InitDraws] :
        spaceShips' = BuildSwarm(window, props, draws, population')
  /\ \E draws \in [1 .. props.starCount -> StarDraws] :
        stars' = BuildStars(window, props, draws)
  /\ lastUpdate' = [i \in 0 .. props.spaceShipCount - 1 |-> NoUpdate]
  /\ lastTail' = [i \in 0 .. props.spaceShipCount - 1 |-> {}]
  /\ lastStroke' = [i \in 0 .. props.spaceShipCount - 1 |-> << >>]
  /\ UNCHANGED << window, props, frames, variant, burst, currentTime, lastTime,
                  pendingDraws >>

(* -------------------------- the specifications ------------------------- *)

Next == Draw \/ Resize \/ Wait \/ Rebuild

Spec == Init /\ [][Next]_vars

\* Frames without a resize event, in a tall window, with the strong edge
\* curves.
EdgeSpec == EdgeInit /\ [][Draw]_vars

\* The class with fpsMax with one ship and one star, in a square window; a
\* frame comes on time or late.
StarInit ==
  InitField({"fpsMax"}, { [width |-> 1600, height |-> 1600] },
            { sp \in StarPropsChoices : sp.starCount = 1 }, {1}, { CruiseProps },
            { MaxBurst })

StarNext == PacedDraw \/ Resize \/ Wait \/ Rebuild

StarSpec == StarInit /\ [][StarNext]_vars

\* Frames without a "resize" event of the two classes whose
\* draw(currentTime) measures the time since the frame before; they have no
\* ship.
ElapsedInit ==
  InitField({"clamped", "elapsed"}, WindowChoices, StarPropsChoices, {0},
            { CruiseProps }, {1})

ElapsedNext == DrawClamped \/ DrawElapsed

ElapsedSpec == ElapsedInit /\ [][ElapsedNext]_vars

\* Frames of one ship with a long tail, in every pair of colours.
ColorInit ==
  InitField({"fpsMax"}, { [width |-> 1600, height |-> 1600] }, { NoStarProps },
            {1}, ColorPropsChoices, {1})

ColorSpec == ColorInit /\ [][Draw]_vars

\* The class with fpsMax with one ship and one star, where time goes on
\* while the resize timer is pending and the event loop runs the callback of
\* a timer that is due.  (A burst of "resize" events has at most MaxBurst
\* events: it ends.)
LiveInit ==
  InitField({"fpsMax"}, { [width |-> 1600, height |-> 1600] },
            { StarProps }, {1}, { CruiseProps }, 1 .. MaxBurst)

LiveSpec == LiveInit /\ [][Next]_vars /\ WF_vars(Wait) /\ WF_vars(Rebuild)

(* ------------------------------ properties ---------------------------- *)

Ships == DOMAIN spaceShips

\* C1: after construction and after every update(), every ship's direction
\* lies in [0, 2 PI).
C1_DirectionInRange ==
  \A i \in Ships :
    0 <= spaceShips[i].direction /\ spaceShips[i].direction < 2 * PI

\* C2: after construction and after every update(), every ship's position
\* lies in [0, canvas.width] x [0, canvas.height].
C2_PositionInCanvas ==
  \A i \in Ships :
    /\ 0 <= spaceShips[i].x /\ spaceShips[i].x <= canvas.width
    /\ 0 <= spaceShips[i].y /\ spaceShips[i].y <= canvas.height

\* C2 witness: an update moved a ship past a border and the hard limit put
\* it back on it.
C2_ClampedAtBorder ==
  \E i \in Ships :
    /\ lastUpdate[i].ran
    /\ lastUpdate[i].x < 0
    /\ spaceShips[i].x = 0

\* The position of ship i's target in swarm.
TargetPosition(swarm, i) ==
  << swarm[swarm[i].targetShip].x, swarm[swarm[i].targetShip].y >>

\* C3: within one frame every following computation reads its target's
\* position as committed at the end of the previous frame; at the least
\* the reads of a frame are all made before or all made after the position
\* integration, so all see the previous frame's positions or all see this
\* frame's.
C3_ReadsOneFrame ==
  [][ frames' = frames + 1 =>
        \/ \A i \in Ships :
             lastUpdate'[i].targetSeen # << >> =>
               lastUpdate'[i].targetSeen = TargetPosition(spaceShips, i)
        \/ \A i \in Ships :
             lastUpdate'[i].targetSeen # << >> =>
               lastUpdate'[i].targetSeen = TargetPosition(spaceShips', i)
    ]_vars

\* C4: with followIndex = null and following enabled, ship i of a swarm of
\* N >= 2 ships targets ship (i + 1) mod N; whatever followIndex is, and
\* also for N = 1, no ship targets itself.
C4_FollowTargets ==
  \A i \in Ships :
    LET p == spaceShips[i].props
        n == props.spaceShipCount
    IN /\ spaceShips[i].targetShip # i
       /\ (p.followEnabled /\ p.followIndex = null /\ n >= 2) =>
             spaceShips[i].targetShip = (i + 1) % n
       /\ n = 1 => spaceShips[i].targetShip = null

\* C4 witness: a swarm whose explicit followIndex names, modulo the swarm
\* size, the index of one of its ships: that ship has no target and the others
\* target it.
C4_OwnIndexNamed ==
  /\ props.spaceShipCount >= 2
  /\ props.spaceShipProps.followEnabled
  /\ props.spaceShipProps.followIndex # null
  /\ \E i \in Ships :
        /\ props.spaceShipProps.followIndex % props.spaceShipCount = i
        /\ spaceShips[i].targetShip = null
        /\ \A j \in Ships \ {i} : spaceShips[j].targetShip = i

\* A ship whose latest update() left it where it was.
HeldImmobile(swarm, updates, i) ==
  /\ updates[i].ran
  /\ swarm[i].lastPosition = [x |-> swarm[i].x, y |-> swarm[i].y]

\* C5: a ship whose position is the same at the end of more than
\* stuckThreshold consecutive ticks has isStuck = true.  (Stated for two
\* consecutive ticks, which is more than a stuckThreshold of 1.)
C5_ImmobileIsStuck ==
  [][ frames' = frames + 1 =>
        \A i \in Ships :
          ( /\ spaceShips[i].props.stuckThreshold <= 1
            /\ HeldImmobile(spaceShips, lastUpdate, i)
            /\ HeldImmobile(spaceShips', lastUpdate', i) )
          => spaceShips'[i].isStuck
    ]_vars

\* The position update() tested lies further than edgeDistance from all
\* four borders.
FarFromEdges(p, cv, at) ==
  /\ at.x > p.edgeDistance /\ at.x < cv.width - p.edgeDistance
  /\ at.y > p.edgeDistance /\ at.y < cv.height - p.edgeDistance

\* The position update() tested lies within edgeDistance of a border.
NearAnEdge(p, cv, at) ==
  \/ at.x < p.edgeDistance \/ at.x > cv.width - p.edgeDistance
  \/ at.y < p.edgeDistance \/ at.y > cv.height - p.edgeDistance

\* The case of C6: a tick of a ship far from the edges, without a follow
\* target, with curveChangeRate = 0.
StraightCase(swarm, updates, cv, i) ==
  /\ updates[i].ran
  /\ FarFromEdges(swarm[i].props, cv, updates[i])
  /\ swarm[i].targetShip = null
  /\ swarm[i].props.curveChangeRate = 0

\* C6 as stated: such a ship keeps its heading constant over the tick.
C6_HeadingConstant ==
  [][ frames' = frames + 1 =>
        \A i \in Ships :
          StraightCase(spaceShips', lastUpdate', canvas', i) =>
            spaceShips'[i].direction = spaceShips[i].direction
    ]_vars

\* C6 as amended: such a ship turns by its curveValue in every tick, and the
\* curveValue stays the one of init(), (index / swarmCount - 0.5) *
\* curveIntensity; the heading is constant only where that value is 0.
C6_HeadingTurnsByCurveValue ==
  [][ frames' = frames + 1 =>
        \A i \in Ships :
          StraightCase(spaceShips', lastUpdate', canvas', i) =>
            LET p == spaceShips[i].props
                c == Quot((2 * p.index - p.swarmCount) * p.curveIntensity,
                          2 * p.swarmCount)
            IN /\ spaceShips[i].curveValue = c
               /\ spaceShips'[i].curveValue = c
               /\ (spaceShips'[i].direction - spaceShips[i].direction - c)
                    % (2 * PI) = 0
               /\ (c = 0) <=> (spaceShips'[i].direction = spaceShips[i].direction)
    ]_vars

\* C6 witness: such a tick has happened to a ship whose curveValue is not 0.
C6_StraightCaseTurning ==
  \E i \in Ships :
    /\ StraightCase(spaceShips, lastUpdate, canvas, i)
    /\ spaceShips[i].curveValue # 0

\* The angular distance of a heading from heading 0, the heading that leads
\* straight away from the left border.
AwayDistance(direction) == Abs(NormalizeDiff(0 - direction))

\* A trail sample within edgeDistance of the left border and of no other.
LeftZoneOnly(p, cv, at) ==
  /\ at.x < p.edgeDistance
  /\ ~(at.x > cv.width - p.edgeDistance)
  /\ ~(at.y < p.edgeDistance)
  /\ ~(at.y > cv.height - p.edgeDistance)

\* The case of C7: the ship started at x = edgeDistance / 2 with heading PI
\* and has been within edgeDistance of the left border only in every tick
\* since.  The trail holds every sample since the start.
LeftZoneCase(ship, cv, n) ==
  LET trail == ship.positions
      first == trail[Len(trail)]
  IN /\ n >= 1
     /\ Len(trail) = n
     /\ first.direction = PI
     /\ 2 * (first.x - Cos(PI) * ship.props.speed) = ship.props.edgeDistance
     /\ \A k \in 1 .. Len(trail) : LeftZoneOnly(ship.props, cv, trail[k])

\* The curveStrength of the left edge block in the tick that led to ship.
LeftCurveStrength(ship, at) ==
  LET p == ship.props
      base == Quot(p.edgeCurveIntensity * (p.edgeDistance - at.x), p.edgeDistance)
  IN IF ship.isStuck \/ ship.edgeProximityFrames.left > p.stuckThreshold
     THEN base * p.stuckEscapeMultiplier
     ELSE base

\* C7 as stated: the first tick turns the heading toward increasing x, and
\* in no later tick in the zone does the angular distance of the heading from
\* heading 0 increase.
C7_NeverTurnsBack ==
  [][ frames' = frames + 1 =>
        \A i \in Ships :
          LeftZoneCase(spaceShips'[i], canvas', frames') =>
            IF frames = 0
            THEN AwayDistance(spaceShips'[i].direction)
                   < AwayDistance(spaceShips[i].direction)
            ELSE AwayDistance(spaceShips'[i].direction)
                   <= AwayDistance(spaceShips[i].direction)
    ]_vars

\* C7 as amended: the first tick turns the heading toward increasing x; in
\* every later tick in the zone the heading moves by that tick's
\* curveStrength toward heading 0, so the angular distance does not increase
\* while it is at least curveStrength, and otherwise the heading passes
\* heading 0 and ends less than curveStrength beyond it.
C7_TurnsBackWithinCurveStrength ==
  [][ frames' = frames + 1 =>
        \A i \in Ships :
          LeftZoneCase(spaceShips'[i], canvas', frames') =>
            LET before   == AwayDistance(spaceShips[i].direction)
                after    == AwayDistance(spaceShips'[i].direction)
                strength == LeftCurveStrength(spaceShips'[i], lastUpdate'[i])
            IN /\ frames = 0 => after < before
               /\ before >= strength => after = before - strength
               /\ before < strength => after <= strength - before
    ]_vars

\* C7 witness: a ship in that case whose heading, two or more ticks after
\* the start, has passed heading 0.
C7_PassedAway ==
  \E i \in Ships :
    /\ frames >= 2
    /\ LeftZoneCase(spaceShips[i], canvas, frames)
    /\ spaceShips[i].direction > PI

\* C8: in a tick in which the ship is within edgeDistance of a border,
\* neither following nor the random curve is applied: the target is not
\* read, curveValue is neither resampled nor added to the direction.
C8_EdgeAvoidanceOnly ==
  [][ frames' = frames + 1 =>
        \A i \in Ships :
          NearAnEdge(spaceShips'[i].props, canvas', lastUpdate'[i]) =>
            /\ ~lastUpdate'[i].followingApplied
            /\ ~lastUpdate'[i].curveApplied
            /\ lastUpdate'[i].targetSeen = << >>
            /\ spaceShips'[i].curveValue = spaceShips[i].curveValue
    ]_vars

\* C8 witness: a tick near an edge of a ship that has a target within
\* followDistance.
C8_NearEdgeWithTarget ==
  \E i \in Ships :
    /\ lastUpdate[i].ran
    /\ NearAnEdge(spaceShips[i].props, canvas, lastUpdate[i])
    /\ FollowingApplies([spaceShips[i] EXCEPT !.x = lastUpdate[i].x,
                                              !.y = lastUpdate[i].y],
                        spaceShips)

\* C9: after a tick the trail never holds more than tailLength samples.
C9_TrailWithinTailLength ==
  \A i \in Ships :
    Len(spaceShips[i].positions) <= spaceShips[i].props.tailLength

\* C9 witness: a trail that is full after an update().
C9_TrailFull ==
  \E i \in Ships :
    /\ lastUpdate[i].ran
    /\ spaceShips[i].props.tailLength >= 1
    /\ Len(spaceShips[i].positions) = spaceShips[i].props.tailLength

\* The summed length of the segments in a set.
RECURSIVE TotalLength(_, _)
TotalLength(positions, segments) ==
  IF segments = {} THEN 0
  ELSE LET i == CHOOSE k \in segments : TRUE IN
       SegmentLength(positions, i) + TotalLength(positions, segments \ {i})

\* C10: in one drawTail() the summed length of the stroked segments never
\* exceeds tailMaxDistance; a segment is stroked only while its opacity is
\* positive, and no segment after the first non-drawn one is stroked.
C10_StrokedWithinMaxDistance ==
  \A i \in Ships :
    LET p == spaceShips[i].props
        trail == spaceShips[i].positions
        stroked == lastTail[i]
    IN /\ TotalLength(trail, stroked) <= p.tailMaxDistance
       /\ \A k \in stroked :
            /\ k \in 1 .. Len(trail) - 1
            /\ p.tailOpacity * (p.tailMaxDistance - TotalLength(trail, 1 .. k)) > 0
            /\ 1 .. k \subseteq stroked

\* C10 witness: a drawTail() that stroked the first segments of a trail and
\* not the last ones.
C10_TailCutShort ==
  \E i \in Ships :
    /\ lastTail[i] # {}
    /\ Cardinality(lastTail[i]) < Len(spaceShips[i].positions) - 1

\* The displacement update() is about to measure for this ship is not
\* minimal: it is at least 0.2 * speed.
MovesNormally(ship) ==
  ~MovementIsMinimal(Hypot(Cos(ship.direction) * ship.props.speed,
                           Sin(ship.direction) * ship.props.speed),
                     ship.props.speed)

ResizeStep == window' # window

\* A step in which init() runs outside the constructor.
RebuildStep == initDebounce /\ ~initDebounce'

\* C12: a "resize" event changes nothing of the population and restarts
\* the timer; the population is rebuilt only by the timer, only when
\* DebounceDelay ms have passed since the latest event, and for the window
\* of that event; the rebuild leaves no timer pending, so that a burst is
\* followed by one rebuild; and every pending timer leads to a rebuild.
C12_OneRebuildAfterBurst ==
  /\ [][ /\ ResizeStep =>
              /\ initDebounce' /\ quiet' = 0
              /\ canvas' = canvas /\ spaceShips' = spaceShips /\ stars' = stars
         /\ RebuildStep =>
              /\ quiet = DebounceSteps
              /\ canvas' = window
              /\ Len(stars') = props.starCount
              /\ DOMAIN spaceShips' = 0 .. props.spaceShipCount - 1
         /\ (frames' = frames /\ << canvas, spaceShips, stars >>' # << canvas, spaceShips, stars >>)
              => RebuildStep
         /\ (initDebounce' /\ ~initDebounce) => ResizeStep
       ]_vars
  /\ (initDebounce ~> ~initDebounce)

\* C12 witness: a burst of two events with no rebuild between them, the
\* second one less than DebounceDelay ms after the first, whose timer is
\* due.
C12_BurstDue ==
  /\ initDebounce
  /\ resizes = 2
  /\ quiet = DebounceSteps

\* The amount the frame of this step takes from the z of every star.
StarStep ==
  CASE variant = "fpsMax"  -> FixedSpeed(props)
    [] variant = "clamped" -> ElapsedSpeed(props, ClampedDeltaTime(lastTime, currentTime'))
    [] variant = "elapsed" -> ElapsedSpeed(props, DeltaTime(lastTime, currentTime'))

\* x in [-centerX, centerX) and y in [-centerY, centerY)
InCenteredBounds(star, cv) ==
  /\ -CenterX(cv) <= star.x /\ star.x < CenterX(cv)
  /\ -CenterY(cv) <= star.y /\ star.y < CenterY(cv)

\* C13: in the frame in which the z of a star would become <= 0 the star
\* gets z = canvas width and x, y within the centred bounds; after a frame
\* no star has z <= 0; a star that is not recycled only moves in z; and the
\* collection keeps its length and every star its place.
C13_RecycledInPlace ==
  [][ frames' = frames + 1 =>
        /\ Len(stars') = Len(stars)
        /\ \A i \in 1 .. Len(stars) :
              /\ stars'[i].z > 0
              /\ IF stars[i].z - StarStep <= 0
                 THEN /\ stars'[i].z = canvas.width
                      /\ InCenteredBounds(stars'[i], canvas)
                 ELSE /\ stars'[i].z = stars[i].z - StarStep
                      /\ stars'[i].x = stars[i].x
                      /\ stars'[i].y = stars[i].y
    ]_vars

\* C13 witness: after a frame, a star that was recycled in it or in a frame
\* before (init() gives no star the z of the canvas width).
C13_StarRecycled ==
  /\ frames >= 1
  /\ \E i \in 1 .. Len(stars) :
        /\ stars[i].z = canvas.width
        /\ InCenteredBounds(stars[i], canvas)

\* C14: every star the next draw() projects has 0 < z <= canvas width: the
\* division by z is defined and the radius is not negative.
C14_DepthInRange ==
  \A i \in 1 .. Len(stars) :
    /\ 0 < stars[i].z /\ stars[i].z <= canvas.width
    /\ ScreenX(stars[i], canvas) # NaN
    /\ ScreenY(stars[i], canvas) # NaN
    /\ StarSize(stars[i], canvas, props) >= 0

\* A star is in "multi" mode when its colour is the triple init() drew.
MultiColored(star) == star.color \in Seq(Int)

\* C15 (as the code has it): a frame leaves the colour of every star as it
\* is, of a star it recycles as of the others; in "multi" mode too a star
\* keeps the colour init() gave it until init() runs again.
C15_RespawnKeepsColor ==
  [][ frames' = frames + 1 =>
        \A i \in 1 .. Len(stars) : stars'[i].color = stars[i].color
    ]_vars

\* C15 (as stated): in "multi" mode a star that is recycled has a new
\* colour after the frame.
C15_RespawnNewColor ==
  [][ frames' = frames + 1 =>
        \A i \in 1 .. Len(stars) :
          (MultiColored(stars[i]) /\ stars[i].z - StarStep <= 0)
            => stars'[i].color # stars[i].color
    ]_vars

\* C15 witness: a star in "multi" mode that a frame has recycled.
C15_MultiStarRecycled ==
  /\ frames >= 1
  /\ \E i \in 1 .. Len(stars) :
        MultiColored(stars[i]) /\ stars[i].z = canvas.width

\* A colour string of six hex digits, with or without a '#' in front.
IsSixDigitHex(hex) ==
  LET digits == IF hex # << >> /\ Head(hex) = Hash THEN Tail(hex) ELSE hex
  IN /\ Len(digits) = 6
     /\ \A k \in 1 .. 6 : IsHexDigit(digits[k])

\* The configuration the claim takes as valid: distances above 0 and
\* colours of six hex digits.
ValidConfig(p) ==
  /\ p.edgeDistance > 0 /\ p.followDistance > 0 /\ p.tailMaxDistance > 0
  /\ IsSixDigitHex(p.color)
  /\ IsSixDigitHex(p.tailStartColor)
  /\ IsSixDigitHex(p.tailEndColor)

\* C16: no ship built from a configuration that is not valid ever runs a
\* tick (construction rejects it), and no strokeStyle has a NaN channel.
C16_InvalidConfigRejected ==
  \A i \in Ships :
    /\ lastUpdate[i].ran => ValidConfig(spaceShips[i].props)
    /\ \A k \in DOMAIN lastStroke[i] :
          /\ lastStroke[i][k].r # NaN
          /\ lastStroke[i][k].g # NaN
          /\ lastStroke[i][k].b # NaN

\* The three channels of a strokeStyle.
StrokeChannels(style) == [ r |-> style.r, g |-> style.g, b |-> style.b ]

\* The cumulative distance at segment k is at least 25% of tailMaxDistance.
PastQuarter(ship, k) ==
  4 * CurrentDistance(ship.positions, k) >= ship.props.tailMaxDistance

\* C19: for tail colours of six hex digits, interpolateColors at factor 0
\* denotes the start colour and at factor 1 the end colour (in upper or
\* lower case, with or without '#'), and every segment drawTail() strokes at
\* a cumulative distance of at least 25% of tailMaxDistance has the channels
\* of tailEndColor.
C19_EndColorFromQuarter ==
  \A i \in Ships :
    LET p == spaceShips[i].props IN
    (IsSixDigitHex(p.tailStartColor) /\ IsSixDigitHex(p.tailEndColor)) =>
      /\ Channels(InterpolateColors(p.tailStartColor, p.tailEndColor, 0))
           = Channels(p.tailStartColor)
      /\ Channels(InterpolateColors(p.tailStartColor, p.tailEndColor, 100))
           = Channels(p.tailEndColor)
      /\ IsSixDigitHex(InterpolateColors(p.tailStartColor, p.tailEndColor, 0))
      /\ IsSixDigitHex(InterpolateColors(p.tailStartColor, p.tailEndColor, 100))
      /\ \A k \in DOMAIN lastStroke[i] :
            PastQuarter(spaceShips[i], k) =>
              StrokeChannels(lastStroke[i][k]) = Channels(p.tailEndColor)

\* C19 witness: a tail from one colour to another one of which drawTail()
\* stroked a segment before 25% of tailMaxDistance, in a colour between the
\* two, and a segment past it, in the end colour.
C19_TailReachesEndColor ==
  \E i \in Ships :
    LET p == spaceShips[i].props IN
    /\ IsSixDigitHex(p.tailStartColor) /\ IsSixDigitHex(p.tailEndColor)
    /\ Channels(p.tailStartColor) # Channels(p.tailEndColor)
    /\ \E k \in DOMAIN lastStroke[i] :
          /\ ~PastQuarter(spaceShips[i], k)
          /\ StrokeChannels(lastStroke[i][k]) # Channels(p.tailEndColor)
    /\ \E k \in DOMAIN lastStroke[i] :
          /\ PastQuarter(spaceShips[i], k)
          /\ StrokeChannels(lastStroke[i][k]) = Channels(p.tailEndColor)

\* The time between the frame of this step and the frame before, in ms.
Elapsed == currentTime' - currentTime

\* C17: in a frame the z of a star that is not recycled decreases by
\* speed * 60 * deltaTime, and a ship moves by its speed times the share
\* deltaTime has of the time of one frame, deltaTime being the time since
\* the frame before.
C17_ScaledByElapsedTime ==
  [][ frames' = frames + 1 =>
        /\ \A i \in 1 .. Len(stars) :
              stars[i].z - StarStep > 0 =>
                stars[i].z - stars'[i].z = ElapsedSpeed(props, Elapsed)
        /\ \A i \in Ships :
              /\ lastUpdate'[i].x - spaceShips[i].x
                   = Quot(Cos(spaceShips[i].direction) * spaceShips[i].props.speed * Elapsed,
                          FrameInterval(props))
              /\ lastUpdate'[i].y - spaceShips[i].y
                   = Quot(Sin(spaceShips[i].direction) * spaceShips[i].props.speed * Elapsed,
                          FrameInterval(props))
    ]_vars

\* What a frame takes from the z of a star when it comes as soon after the
\* frame before as the class lets it: after the timeout of the class with
\* fpsMax, after one period of requestAnimationFrame in the others.
NormalStep ==
  IF variant = "fpsMax" THEN ElapsedSpeed(props, FrameInterval(props))
  ELSE ElapsedSpeed(props, RefreshInterval)

\* C18: a frame that comes later than that (frames were omitted) takes no
\* more from the z of a star than a frame after the normal time does.
C18_NoCatchUp ==
  [][ frames' = frames + 1 =>
        \A i \in 1 .. Len(stars) :
          stars[i].z - StarStep > 0 =>
            stars[i].z - stars'[i].z <= NormalStep
    ]_vars

\* The diagonal heading away from the corner of two adjacent edges.
CornerDirection(nearEdges) ==
  CASE nearEdges = {"left", "top"}     -> PI \div 4
    [] nearEdges = {"left", "bottom"}  -> (7 * PI) \div 4
    [] nearEdges = {"right", "top"}    -> (3 * PI) \div 4
    [] nearEdges = {"right", "bottom"} -> (5 * PI) \div 4

Corners ==
  { {"left", "top"}, {"left", "bottom"}, {"right", "top"}, {"right", "bottom"} }

\* C20: in an update() near two adjacent edges, both edge blocks that ran
\* have used the diagonal heading away from that corner as idealDirection.
C20_CornerUsesDiagonal ==
  \A i \in Ships :
    (lastUpdate[i].ran /\ lastUpdate[i].nearEdges \in Corners) =>
      \A edge \in lastUpdate[i].nearEdges :
        lastUpdate[i].idealDirections[edge] = CornerDirection(lastUpdate[i].nearEdges)

\* The distance to an edge as its edge block measures it, at the position
\* update() tested.
DistanceToEdge(cv, at, edge) ==
  CASE edge = "left"   -> at.x
    [] edge = "right"  -> cv.width - at.x
    [] edge = "top"    -> at.y
    [] edge = "bottom" -> cv.height - at.y

\* C21: for every edge the latest update() was near, the distance to the
\* edge lies in [0, edgeDistance] (distanceFactor in [0, 1]), and the base
\* curveStrength in [0, edgeCurveIntensity].
C21_DistanceFactorInUnitRange ==
  \A i \in Ships :
    lastUpdate[i].ran =>
      \A edge \in lastUpdate[i].nearEdges :
        LET p == spaceShips[i].props
            distance == DistanceToEdge(canvas, lastUpdate[i], edge)
            base == Quot(p.edgeCurveIntensity * (p.edgeDistance - distance),
                         p.edgeDistance)
        IN /\ 0 <= distance /\ distance <= p.edgeDistance
           /\ 0 <= base /\ base <= p.edgeCurveIntensity

\* The edges whose block runs for a position: the four tests of update().
NearEdgesAt(p, cv, at) ==
  { edge \in {"left", "right", "top", "bottom"} :
      DistanceToEdge(cv, at, edge) < p.edgeDistance }

\* C22 (as the code has it): a tick first moves the ship along the heading
\* the tick before left, then tests the edges at that new position, not yet
\* limited to the canvas, and only then turns the heading.
C22_IntegratesBeforeTurning ==
  [][ frames' = frames + 1 =>
        \A i \in Ships :
          LET ship == spaceShips[i]
              at == lastUpdate'[i]
          IN /\ at.x = ship.x + Cos(ship.direction) * ship.props.speed
             /\ at.y = ship.y + Sin(ship.direction) * ship.props.speed
             /\ at.nearEdges = NearEdgesAt(ship.props, canvas, at)
    ]_vars

\* C22 (as stated): the position step of a tick uses the heading the same
\* tick produced, and the edges are tested at the position the tick before
\* left.
C22_TurnsBeforeIntegrating ==
  [][ frames' = frames + 1 =>
        \A i \in Ships :
          LET ship == spaceShips[i]
              at == lastUpdate'[i]
          IN /\ at.x = ship.x + Cos(spaceShips'[i].direction) * ship.props.speed
             /\ at.y = ship.y + Sin(spaceShips'[i].direction) * ship.props.speed
             /\ at.nearEdges = NearEdgesAt(ship.props, canvas, ship)
    ]_vars

\* C22 witness: an update() that moved the ship along a heading it then
\* changed, and that found an edge near at the new position which is not
\* near at the position before.
C22_TurnedAfterMoving ==
  \E i \in Ships :
    LET ship == spaceShips[i]
        at == lastUpdate[i]
    IN /\ at.ran
       /\ ship.positions # << >>
       /\ ship.positions[1].direction # ship.direction
       /\ at.x = ship.lastPosition.x
                   + Cos(ship.positions[1].direction) * ship.props.speed
       /\ at.nearEdges # NearEdgesAt(ship.props, canvas, ship.lastPosition)

\* ---------------------------------------------------------------------
\* C24: after every tick the counter of an edge is one more than before
\* when the ship's position is within edgeDistance of that edge, and 0
\* otherwise, so it counts the most recent consecutive ticks near that
\* edge and is not reset by proximity to another edge.
Edges == {"left", "right", "top", "bottom"}

C24_CountsConsecutiveNearTicks ==
  [][ frames' = frames + 1 =>
        \A i \in Ships : \A edge \in Edges :
          LET before == spaceShips[i].edgeProximityFrames[edge]
              after == spaceShips'[i].edgeProximityFrames[edge]
              near == edge \in NearEdgesAt(spaceShips'[i].props, canvas',
                                           spaceShips'[i])
          IN /\ near = (edge \in lastUpdate'[i].nearEdges)
             /\ after = IF near THEN before + 1 ELSE 0 ]_vars

\* A ship that has been near one edge for longer than near another: the
\* older counter has survived the tick in which the second edge came near.
C24_CounterSurvivesOtherEdge ==
  \E i \in Ships : \E e1, e2 \in Edges :
    /\ lastUpdate[i].ran
    /\ {e1, e2} \subseteq lastUpdate[i].nearEdges
    /\ spaceShips[i].edgeProximityFrames[e1] >= 2
    /\ spaceShips[i].edgeProximityFrames[e2] = 1

\* ---------------------------------------------------------------------
\* C25: in a tick that follows, the heading changes by
\* angularDiff * followStrength * (1 - distance / followDistance), with
\* angularDiff the shortest signed difference to the bearing of the
\* target; for followStrength in [0, 1] the new heading is no further
\* from the bearing than the old one and does not pass it, and the
\* correction is no larger than it would be at a smaller distance.
NearerDistances(distance) ==
  { d \in {0, distance \div 2, distance - 1} : d >= 0 }

C25_FollowTurnsTowardTarget ==
  [][ frames' = frames + 1 =>
        \A i \in Ships :
          LET ship == spaceShips[i]
              p == ship.props
              at == lastUpdate'[i]
          IN (at.followingApplied /\ p.followStrength \in 0 .. 100) =>
               LET dx == at.targetSeen[1] - at.x
                   dy == at.targetSeen[2] - at.y
                   distance == Hypot(dx, dy)
                   bearing == Atan2(dy, dx)
                   before == NormalizeDiff(bearing - ship.direction)
                   turn == Quot(before * p.followStrength
                                  * (p.followDistance - distance),
                                100 * p.followDistance)
                   after == NormalizeDiff(bearing - spaceShips'[i].direction)
               IN /\ spaceShips'[i].direction =
                       NormalizeDirection(ship.direction + turn)
                  /\ Abs(turn) <= Abs(before)
                  /\ Abs(after) <= Abs(before)
                  /\ before * after >= 0
                  /\ \A nearer \in NearerDistances(distance) :
                        Abs(Adjustment(p, before, nearer)) >= Abs(turn) ]_vars

\* A ship that followed a target some distance away and turned.
C25_TurnedTowardTarget ==
  \E i \in Ships :
    LET ship == spaceShips[i]
        at == lastUpdate[i]
    IN /\ at.ran
       /\ at.followingApplied
       /\ ship.props.followStrength \in 0 .. 100
       /\ ship.positions # << >>
       /\ at.targetSeen # << at.x, at.y >>
       /\ ship.direction # ship.positions[1].direction

\* ---------------------------------------------------------------------
\* C26: the curveValue of every ship is within [-curveIntensity / 2,
\* +curveIntensity / 2] from its construction on; it changes only in a
\* tick that wanders (where it may be resampled); and in every tick in
\* which neither edge avoidance nor following was applied the heading
\* changes by exactly one curveValue.
CurveInRange(ship) ==
  /\ 2 * ship.curveValue >= -ship.props.curveIntensity
  /\ 2 * ship.curveValue <= ship.props.curveIntensity

C26_CurveValueBounded ==
  /\ [](\A i \in Ships : CurveInRange(spaceShips[i]))
  /\ [][ ~RebuildStep =>
           \A i \in Ships :
             LET ship == spaceShips[i]
                 at == lastUpdate'[i]
             IN /\ spaceShips'[i].curveValue # ship.curveValue =>
                      /\ frames' = frames + 1
                      /\ at.curveApplied
                /\ (frames' = frames + 1 /\ ~at.edgeCurveApplied
                      /\ ~at.followingApplied) =>
                      /\ at.curveApplied
                      /\ spaceShips'[i].direction =
                           NormalizeDirection(ship.direction
                                                + spaceShips'[i].curveValue) ]_vars

\* A ship whose curveValue has been resampled to a value other than 0 and
\* other than the one of init(), in a tick without edge avoidance and
\* without following.
C26_CurveResampled ==
  \E i \in Ships :
    LET ship == spaceShips[i] IN
    /\ lastUpdate[i].ran
    /\ lastUpdate[i].curveApplied
    /\ ship.curveValue # 0
    /\ ship.curveValue # InitCurveValue(ship.props)
    /\ ~lastUpdate[i].edgeCurveApplied
    /\ ~lastUpdate[i].followingApplied

\* ---------------------------------------------------------------------
\* C27: the trail of a new ship is empty, and every tick puts the sample
\* it integrated (x, y and the heading it moved along) in front of the
\* trail and removes at most one sample, the oldest, so that after n
\* ticks the trail holds the last min(n, tailLength) samples, the most
\* recent first; nothing else changes a trail.
IntegratedSample(ship) ==
  [x |-> ship.x + Cos(ship.direction) * ship.props.speed,
   y |-> ship.y + Sin(ship.direction) * ship.props.speed,
   direction |-> ship.direction]

C27_TrailIsLatestSamples ==
  /\ \A i \in Ships : spaceShips[i].positions = << >>
  /\ [][ /\ RebuildStep =>
             \A i \in DOMAIN spaceShips' : spaceShips'[i].positions = << >>
         /\ frames' = frames + 1 =>
             \A i \in Ships :
               LET ship == spaceShips[i]
                   all == << IntegratedSample(ship) >> \o ship.positions
                   kept == Min(Len(all), ship.props.tailLength)
               IN /\ spaceShips'[i].positions = SubSeq(all, 1, kept)
                  /\ kept >= Len(all) - 1
         /\ (~RebuildStep /\ frames' = frames) =>
             \A i \in Ships :
               spaceShips'[i].positions = spaceShips[i].positions ]_vars

\* A ship with a trail of two or more samples, full after more ticks than
\* it holds samples, whose samples differ.
C27_FullTrail ==
  \E i \in Ships :
    LET ship == spaceShips[i] IN
    /\ frames = MaxFrames
    /\ canvas = window /\ ~initDebounce
    /\ ship.props.tailLength \in 2 .. MaxFrames - 1
    /\ Len(ship.positions) = ship.props.tailLength
    /\ ship.positions[1] # ship.positions[2]
    /\ ship.positions[1].x = lastUpdate[i].x
    /\ ship.positions[1].y = lastUpdate[i].y

\* ---------------------------------------------------------------------
\* C28: in every reachable state the stuckFrames of every ship is 0 and
\* its isStuck is false, also when the hard limits hold the ship in place,
\* so that no tick meets the condition of the stuck escape and no edge
\* block sees isStuck set.
C28_NeverStuck ==
  \A i \in Ships :
    /\ spaceShips[i].stuckFrames = 0
    /\ ~spaceShips[i].isStuck
    /\ ~StuckTooLong(spaceShips[i])

\* A ship whose latest tick left it where it was: it ran into the hard
\* limits again, from a position on the border.
C28_HeldByLimits ==
  \E i \in Ships :
    LET ship == spaceShips[i] IN
    /\ lastUpdate[i].ran
    /\ ship.props.speed > 0
    /\ ship.x = ship.lastPosition.x
    /\ ship.y = ship.lastPosition.y
    /\ << lastUpdate[i].x, lastUpdate[i].y >> # << ship.x, ship.y >>

\* ---------------------------------------------------------------------
\* C29: after every tick the newest sample of the trail is the position of
\* the ship, and every sample of the trail lies inside the canvas.
InsideCanvas(cv, at) ==
  /\ at.x >= 0 /\ at.x <= cv.width
  /\ at.y >= 0 /\ at.y <= cv.height

C30_OneRenderLoop ==
  /\ [](pendingDraws <= 1 /\ (frames >= 1 => pendingDraws = 1))
  /\ [][ /\ frames' = frames + 1 =>
               pendingDraws' = Invoked(pendingDraws, frames = 0) + 1
         /\ (ResizeStep \/ RebuildStep) =>
               pendingDraws' = pendingDraws /\ frames' = frames ]_vars

\* A frame drawn after a rebuild that followed a frame: the loop went on
\* through the resize, with one draw pending.
C30_LoopSurvivesRebuild ==
  /\ canvas # [width |-> 1600, height |-> 1600]
  /\ ~initDebounce
  /\ frames >= 2
  /\ \E i \in Ships : lastUpdate[i].ran
  /\ pendingDraws = 1

\* ---------------------------------------------------------------------
\* C31: after the constructor's init() and after every rebuild the swarm
\* holds exactly spaceShipCount ships, the ship at index i has index i,
\* every ship knows the current array as its swarm, every target is a ship
\* of that array, and the targets are taken from the whole population: with
\* the default followIndex every ship of a swarm of two or more follows its
\* cyclic successor.
C31_SwarmOfCurrentShips ==
  /\ DOMAIN spaceShips = 0 .. props.spaceShipCount - 1
  /\ \A i \in Ships :
       LET ship == spaceShips[i] IN
       /\ ship.props.index = i
       /\ ship.props.swarmCount = props.spaceShipCount
       /\ ship.swarm = population
       /\ ship.targetShip # null =>
            /\ ship.targetShip \in Ships
            /\ spaceShips[ship.targetShip].swarm = population
       /\ (ship.props.followEnabled /\ ship.props.followIndex = null
             /\ props.spaceShipCount >= 2) =>
            ship.targetShip = (i + 1) % props.spaceShipCount

\* A swarm of two or more built by a rebuild, with targets, drawn since.
C31_RebuiltSwarmFollows ==
  /\ population # 0
  /\ props.spaceShipCount >= 2
  /\ \A i \in Ships : spaceShips[i].targetShip # null /\ lastUpdate[i].ran

\* ---------------------------------------------------------------------
\* C32: the tick of a ship changes that ship only.  In a frame the ships
\* tick in index order, so the state a frame leaves ship i in is the
\* outcome of its own update() on the state it had before the frame, with
\* the ships before it as their ticks left them and the ships after it as
\* they were; its props, its swarm and its target are as before, and so is
\* the membership of the swarm.
SwarmDuring(i) ==
  [j \in Ships |-> IF j < i THEN spaceShips'[j] ELSE spaceShips[j]]

C32_TickChangesOwnShipOnly ==
  [][ frames' = frames + 1 =>
        /\ DOMAIN spaceShips' = DOMAIN spaceShips
        /\ \A i \in Ships :
             /\ spaceShips'[i].props = spaceShips[i].props
             /\ spaceShips'[i].swarm = spaceShips[i].swarm
             /\ spaceShips'[i].targetShip = spaceShips[i].targetShip
             /\ \E r \in UpdateDraws(spaceShips[i], SwarmDuring(i), canvas) :
                   spaceShips'[i] =
                     Update(spaceShips[i], SwarmDuring(i), canvas, r).ship ]_vars

\* A frame of a swarm in which every ship followed its target.
C32_AllFollowed ==
  /\ props.spaceShipCount >= 2
  /\ \A i \in Ships :
       /\ lastUpdate[i].followingApplied
       /\ spaceShips[i].targetShip # i
       /\ lastUpdate[i].targetSeen # << >>

\* ---------------------------------------------------------------------
\* C33: in every frame the fill style in effect when a star is filled is
\* the colour of that star.
C33_FilledWithOwnColor ==
  \A i \in DOMAIN lastFill : lastFill[i] = StarStyle(stars[i], props)

\* Frames of the class with fpsMax with one ship and up to MaxStars stars,
\* without a resize event.
FillInit ==
  InitField({"fpsMax"}, { [width |-> 1600, height |-> 1600] }, StarPropsChoices,
            {1}, { CruiseProps }, {1})

FillSpec == FillInit /\ [][Draw]_vars

====
